---- MODULE Spec2Model ----
(***************************************************************************)
(* Android RMS backend (src/main.py): device registry, command dispatch    *)
(* and cascading delete over one SQLite file.                              *)
(*                                                                         *)
(* Every request opens its own connection (get_db_connection) and runs     *)
(* its statements one after the other.  The server is deployed with        *)
(* several gunicorn workers (src/main.py:15, :600), so requests of         *)
(* different workers interleave between statements; the interleaved        *)
(* specifications take one step per statement.  Within one worker the      *)
(* handlers are `async def` without any await and run one after the        *)
(* other: SpecSeq takes one step per whole request.                        *)
(*                                                                         *)
(* SQLite (rollback journal, Python's default isolation level): a SELECT   *)
(* outside a transaction reads the committed file; the first INSERT /      *)
(* UPDATE / DELETE of a connection opens a transaction and takes the       *)
(* write lock, its changes stay private to the connection until commit(),  *)
(* and a second writer waits for the lock.  The busy timeout (the lock     *)
(* holder not committing for 5 s) is not modelled.  A fetchone() that      *)
(* leaves its SELECT open only delays another connection's commit until    *)
(* the reader's next statement; the outcomes are those modelled here.      *)
(***************************************************************************)
EXTENDS Integers, Sequences, FiniteSets, TLC

\* ---------------------------------------------------------------- bounds
NumWorkers == 2
MaxCommands == 2
MaxDeviceRows == 3
MaxLogs == 1
ClockStepMs == 500
MaxClockMs == 1000

\* ------------------------------------------------------------- constants
MsPerSecond == 1000
ONLINE_THRESHOLD_SECONDS == 20

Procs == 1..NumWorkers

DemoDeviceId == "demo-device-12345"
DeviceIds == {DemoDeviceId, "device-A"}

\* Optional[...] request fields: <<>> is None, <<v>> is a value.
DemoMeta ==
  [device_name |-> <<"Test Device (Demo)">>, os_version |-> <<"Android 14">>,
   phone_number |-> <<"+919999999999">>, battery_level |-> <<95>>]
NoMeta ==
  [device_name |-> <<>>, os_version |-> <<>>, phone_number |-> <<>>,
   battery_level |-> <<>>]
Metas ==
  {NoMeta,
   [device_name |-> <<"Pixel">>, os_version |-> <<"Android 13">>,
    phone_number |-> <<>>, battery_level |-> <<80>>]}

\* SendCommandRequest bodies: command_data is a dict, here its item list.
NoBody == [command_type |-> "", command_data |-> <<>>]
SmsBody == [command_type |-> "sms", command_data |-> << <<"to", "100">> >>]
Bodies == {[command_type |-> "ping", command_data |-> <<>>], SmsBody}

\* ------------------------------------------------------------ conversions
\* now_utc(): the wall clock formatted "%Y-%m-%d %H:%M:%S".  The text drops
\* the fraction of the second; it is represented by the count of whole
\* seconds it denotes (the format is injective and order-preserving there).
now_utc(clockMs) == clockMs \div MsPerSecond

\* What a DATETIME column can hold besides such a text.  The column has NUMERIC
\* affinity and no CHECK: a text in another format is stored as TEXT, a number
\* or a text that looks like one as INTEGER / REAL, and sqlite3 hands Python a
\* str, an int or a float accordingly.
MalformedText == -1
NumericValue == -2

\* datetime.strptime(value, "%Y-%m-%d %H:%M:%S"): the second a text in the
\* format denotes, ValueError for any other text, TypeError for a value that
\* is no str.
strptime(value) ==
  IF value = NumericValue THEN [raised |-> "TypeError", seconds |-> 0]
  ELSE IF value = MalformedText THEN [raised |-> "ValueError", seconds |-> 0]
  ELSE [raised |-> "none", seconds |-> value]

\* str(cmd['id']): the decimal digits of a row id.
RECURSIVE Str(_)
Str(n) == IF n < 10 THEN <<n>> ELSE Str(n \div 10) \o <<n % 10>>

\* The INTEGER affinity of commands.id applied to a text parameter of IN (...).
RECURSIVE ToInteger(_)
ToInteger(digits) ==
  IF Len(digits) = 0 THEN 0
  ELSE 10 * ToInteger(SubSeq(digits, 1, Len(digits) - 1)) + digits[Len(digits)]

\* json.dumps of a dict: "{", then key ":" value separated by ",", then "}".
RECURSIVE json_items(_)
json_items(items) ==
  IF Len(items) = 0 THEN <<>>
  ELSE <<items[1][1], ":", items[1][2]>>
       \o (IF Len(items) = 1 THEN <<>> ELSE <<",">> \o json_items(Tail(items)))
json_dumps(items) == <<"{">> \o json_items(items) \o <<"}">>

\* json.loads of such a text: every fourth token after "{" starts an item.
json_loads(text) ==
  LET inner == SubSeq(text, 2, Len(text) - 1)
      n == (Len(inner) + 1) \div 4
  IN [i \in 1..n |-> <<inner[4 * (i - 1) + 1], inner[4 * (i - 1) + 3]>>]

\* ------------------------------------------------------------ the tables
\* A database value: the four tables (sets of rows keyed by their rowid) and
\* sqlite_sequence, the AUTOINCREMENT counters.
EmptyDb ==
  [devices |-> {}, commands |-> {}, sms_logs |-> {}, form_submissions |-> {},
   seq |-> [devices |-> 0, commands |-> 0, sms_logs |-> 0, form_submissions |-> 0]]

\* (mutant) INTEGER PRIMARY KEY without AUTOINCREMENT: the largest rowid in the
\* table plus one.
NextIdMaxRowid(s, table) ==
  IF s[table] = {} THEN 1
  ELSE (CHOOSE n \in {r.id : r \in s[table]} : \A r \in s[table] : r.id <= n) + 1

\* id INTEGER PRIMARY KEY AUTOINCREMENT: one more than the largest rowid the
\* table ever held, which sqlite_sequence keeps.
NextId(s, table) == s.seq[table] + 1

\* The rows of a set in rowid order (a table scan).
RECURSIVE Scan(_)
Scan(rows) ==
  IF rows = {} THEN <<>>
  ELSE LET first == CHOOSE r \in rows : \A q \in rows : r.id <= q.id
       IN <<first>> \o Scan(rows \ {first})

\* (mutant) the devices table declared without UNIQUE on device_id.
UniqueViolationNever(s, device_id) == FALSE

\* device_id TEXT UNIQUE NOT NULL: an INSERT of a device_id already in the
\* table fails with IntegrityError.
UniqueViolation(s, device_id) == \E r \in s.devices : r.device_id = device_id

\* INSERT INTO devices (...) VALUES (...)
InsertDevice(s, device_id, meta, current_time) ==
  [s EXCEPT
     !.devices = @ \cup
        {[id |-> NextId(s, "devices"), device_id |-> device_id,
          device_name |-> meta.device_name, os_version |-> meta.os_version,
          phone_number |-> meta.phone_number,
          battery_level |-> meta.battery_level,
          last_seen |-> current_time, created_at |-> current_time]},
     !.seq.devices = NextId(s, "devices")]

\* SELECT device_id FROM devices WHERE device_id = ?   (fetchone)
SelectDevice(s, device_id) == {r \in s.devices : r.device_id = device_id} # {}

\* UPDATE devices SET last_seen = ? WHERE device_id = ?
UpdateLastSeen(s, device_id, current_time) ==
  [s EXCEPT !.devices =
     {IF r.device_id = device_id THEN [r EXCEPT !.last_seen = current_time] ELSE r
        : r \in @}]

\* INSERT INTO commands (device_id, command_type, command_data): status takes
\* its DEFAULT 'pending'.
InsertCommand(s, device_id, command_type, command_text) ==
  [s EXCEPT
     !.commands = @ \cup
        {[id |-> NextId(s, "commands"), device_id |-> device_id,
          command_type |-> command_type, command_data |-> command_text,
          status |-> "pending"]},
     !.seq.commands = NextId(s, "commands")]

\* INSERT INTO sms_logs (device_id, sender, message_body)
InsertSms(s, device_id) ==
  [s EXCEPT
     !.sms_logs = @ \cup {[id |-> NextId(s, "sms_logs"), device_id |-> device_id]},
     !.seq.sms_logs = NextId(s, "sms_logs")]

\* INSERT INTO form_submissions (device_id, custom_data)
InsertForm(s, device_id) ==
  [s EXCEPT
     !.form_submissions = @ \cup
        {[id |-> NextId(s, "form_submissions"), device_id |-> device_id]},
     !.seq.form_submissions = NextId(s, "form_submissions")]

\* (mutant) the status literal of the SELECT misspelt: no row matches.
SelectPendingMisspelt(s, device_id) ==
  Scan({r \in s.commands : r.device_id = device_id /\ r.status = "Pending"})

\* (mutant) the SELECT without its device_id condition.
SelectPendingAnyDevice(s, device_id) ==
  Scan({r \in s.commands : r.status = "pending"})

\* (mutant) the SELECT without its status condition.
SelectPendingAnyStatus(s, device_id) ==
  Scan({r \in s.commands : r.device_id = device_id})

\* SELECT id, command_type, command_data FROM commands
\*   WHERE device_id = ? AND status = 'pending'   (fetchall)
SelectPending(s, device_id) ==
  Scan({r \in s.commands : r.device_id = device_id /\ r.status = "pending"})

\* The loop over the fetched rows: the response items and the captured ids.
CommandList(rows) ==
  [i \in 1..Len(rows) |->
     [id |-> rows[i].id, command_type |-> rows[i].command_type,
      command_data |-> json_loads(rows[i].command_data)]]
CommandIds(rows) == [i \in 1..Len(rows) |-> Str(rows[i].id)]

\* (mutant) the UPDATE binds only the first captured id.
UpdateSentFirstOnly(s, command_ids) ==
  [s EXCEPT !.commands =
     {IF Len(command_ids) > 0 /\ r.id = ToInteger(command_ids[1])
        THEN [r EXCEPT !.status = "sent"] ELSE r : r \in @}]

\* (mutant) the UPDATE selects by status instead of the captured ids.
UpdateSentAllPending(s, command_ids) ==
  [s EXCEPT !.commands =
     {IF r.status = "pending" THEN [r EXCEPT !.status = "sent"] ELSE r : r \in @}]

\* UPDATE commands SET status = 'sent' WHERE id IN (?, ?, ...)
UpdateSent(s, command_ids) ==
  LET ids == {ToInteger(command_ids[i]) : i \in 1..Len(command_ids)}
  IN [s EXCEPT !.commands =
        {IF r.id \in ids THEN [r EXCEPT !.status = "sent"] ELSE r : r \in @}]

\* (mutant) the status literal of the UPDATE misspelt.
UpdateExecutedMisspelt(s, command_id) ==
  [s EXCEPT !.commands =
     {IF r.id = command_id THEN [r EXCEPT !.status = "execute"] ELSE r : r \in @}]

\* (mutant) the UPDATE without its WHERE clause.
UpdateExecutedEvery(s, command_id) ==
  [s EXCEPT !.commands = {[r EXCEPT !.status = "executed"] : r \in @}]

\* UPDATE commands SET status = 'executed' WHERE id = ?
UpdateExecuted(s, command_id) ==
  [s EXCEPT !.commands =
     {IF r.id = command_id THEN [r EXCEPT !.status = "executed"] ELSE r : r \in @}]
\* cursor.rowcount of that UPDATE (the handler does not read it).
RowCount(s, command_id) == Cardinality({r \in s.commands : r.id = command_id})

\* (mutant) the existence check counts every device: the WHERE is lost.
CountDevicesAll(s, device_id) == Cardinality(s.devices)

\* SELECT COUNT(*) FROM devices WHERE device_id = ?
CountDevices(s, device_id) ==
  Cardinality({r \in s.devices : r.device_id = device_id})

\* (mutant) the cascade leaves the commands table alone.
DeleteCommandsSkipped(s, device_id) == s

\* DELETE FROM <table> WHERE device_id = ?
DeleteDevices(s, device_id) ==
  [s EXCEPT !.devices = {r \in @ : r.device_id # device_id}]
DeleteSms(s, device_id) ==
  [s EXCEPT !.sms_logs = {r \in @ : r.device_id # device_id}]
DeleteForms(s, device_id) ==
  [s EXCEPT !.form_submissions = {r \in @ : r.device_id # device_id}]
DeleteCommands(s, device_id) ==
  [s EXCEPT !.commands = {r \in @ : r.device_id # device_id}]

\* SELECT * FROM devices ORDER BY created_at ASC  (fetchall): the rows by
\* ascending created_at.  SQL leaves the order of rows with equal created_at
\* open, and the table has no index on created_at: every order of such rows is
\* a possible result.
OrderByCreatedAt(s) ==
  {rows \in [1..Cardinality(s.devices) -> s.devices] :
     /\ \A i \in DOMAIN rows : \A j \in DOMAIN rows :
          i < j => /\ rows[i] # rows[j]
                   /\ rows[i].created_at <= rows[j].created_at}

\* The rows of all four tables (the sum the DELETEs' cursor.rowcount draw on).
RowTotal(s) ==
  Cardinality(s.devices) + Cardinality(s.sms_logs)
    + Cardinality(s.form_submissions) + Cardinality(s.commands)

\* init_db(): the tables are created empty and, the devices table being
\* empty, the demo device is inserted with last_seen = created_at = now.
init_db(clockMs) == InsertDevice(EmptyDb, DemoDeviceId, DemoMeta, now_utc(clockMs))

\* ------------------------------------------------------------- the state
VARIABLES
  db,          \* the committed database file: what every SELECT reads
  wdb,         \* the pages of the open write transaction (db when none is open)
  lock,        \* the worker holding SQLite's write lock, 0 when it is free
  clock,       \* the wall clock, in milliseconds
  pc,          \* pc[p]: the statement worker p's request executes next
  req,         \* req[p]: the request worker p is handling
  local,       \* local[p]: the handler's local variables
  resp,        \* the response sent in the last step, NoRet when none was
  returned,    \* ids of the commands some get_pending_commands call returned
  redelivered, \* ids returned by a call after an earlier call returned them
  hist,        \* the whole-request specifications: the last two requests, oldest first
  issued       \* ids of the commands ever inserted by a committed request

vars ==
  <<db, wdb, lock, clock, pc, req, local, resp, returned, redelivered, hist,
    issued>>

Request(op, device_id, command_id, meta, body) ==
  [op |-> op, device_id |-> device_id, command_id |-> command_id,
   meta |-> meta, body |-> body]
NoReq == Request("none", "", 0, NoMeta, NoBody)

NoLocal ==
  [current_time |-> 0, command_list |-> <<>>, command_ids |-> <<>>, rowcount |-> 0]

Response(op, device_id, command_id, status, body, rowcount) ==
  [op |-> op, device_id |-> device_id, command_id |-> command_id,
   status |-> status, body |-> body, rowcount |-> rowcount]
NoRet == Response("none", "", 0, 0, <<>>, 0)

Init ==
  /\ clock = 0
  /\ db = init_db(0)
  /\ wdb = db
  /\ lock = 0
  /\ pc = [p \in Procs |-> "idle"]
  /\ req = [p \in Procs |-> NoReq]
  /\ local = [p \in Procs |-> NoLocal]
  /\ resp = NoRet
  /\ returned = {}
  /\ redelivered = {}
  /\ hist = <<>>
  /\ issued = {}

\* ------------------------------------------------- connections, requests
\* A request arrives at an idle worker and runs its first statement.
Arrive(p, r, label) ==
  /\ pc[p] = "idle"
  /\ req' = [req EXCEPT ![p] = r]
  /\ pc' = [pc EXCEPT ![p] = label]

Goto(p, label) == pc' = [pc EXCEPT ![p] = label]

\* A step that sends no response.
Silent == resp' = NoRet

\* The handler returns (or raises): the response goes out, the locals die.
Respond(p, status, body, rowcount) ==
  /\ resp' = Response(req[p].op, req[p].device_id, req[p].command_id,
                       status, body, rowcount)
  /\ req' = [req EXCEPT ![p] = NoReq]
  /\ local' = [local EXCEPT ![p] = NoLocal]
  /\ pc' = [pc EXCEPT ![p] = "idle"]

\* The pages worker p's connection writes to: the committed file when it
\* opens its transaction, its own transaction after that.
Pages(p) == IF lock = p THEN wdb ELSE db

\* (mutant) a connection in autocommit mode (isolation_level=None): every
\* statement is written to the file as it executes.
DmlAutocommit(p, pages) ==
  /\ lock \in {0, p}
  /\ lock' = p
  /\ wdb' = pages
  /\ db' = pages

\* cursor.execute of an INSERT / UPDATE / DELETE on a connection with the
\* default isolation level: the connection takes the write lock (waiting while
\* another connection holds it) and the change stays in its transaction.
Dml(p, pages) ==
  /\ lock \in {0, p}
  /\ lock' = p
  /\ wdb' = pages
  /\ UNCHANGED db

\* conn.commit(): the transaction becomes the committed file.
Commit(p) ==
  /\ lock = p
  /\ db' = wdb
  /\ wdb' = wdb
  /\ lock' = 0

Ghosts == <<returned, redelivered, hist, issued>>

\* The ids of the commands of a database enter `issued`.
Issue(s) == issued' = issued \cup {r.id : r \in s.commands}

\* ------------------------------------------ register_device (check_in)
\* current_time = now_utc()
register_device_now(p) ==
  /\ \E d \in DeviceIds, m \in Metas :
       Arrive(p, Request("register_device", d, 0, m, NoBody), "reg_select")
  /\ local' = [local EXCEPT ![p].current_time = now_utc(clock)]
  /\ Silent
  /\ UNCHANGED <<db, wdb, lock, clock, Ghosts>>

\* SELECT device_id FROM devices ...; device = cursor.fetchone(); if device:
register_device_select(p) ==
  /\ pc[p] = "reg_select"
  /\ Goto(p, IF SelectDevice(db, req[p].device_id) THEN "reg_update" ELSE "reg_insert")
  /\ Silent
  /\ UNCHANGED <<db, wdb, lock, clock, req, local, Ghosts>>

\* UPDATE devices SET last_seen = ? WHERE device_id = ?
register_device_update(p) ==
  /\ pc[p] = "reg_update"
  /\ Dml(p, UpdateLastSeen(Pages(p), req[p].device_id, local[p].current_time))
  /\ Goto(p, "reg_commit")
  /\ Silent
  /\ UNCHANGED <<clock, req, local, Ghosts>>

\* INSERT INTO devices ... of a device_id no row holds
register_device_insert(p) ==
  /\ pc[p] = "reg_insert"
  /\ ~UniqueViolation(Pages(p), req[p].device_id)
  /\ NextId(Pages(p), "devices") <= MaxDeviceRows
  /\ Dml(p, InsertDevice(Pages(p), req[p].device_id, req[p].meta,
                         local[p].current_time))
  /\ Goto(p, "reg_commit")
  /\ Silent
  /\ UNCHANGED <<clock, req, local, Ghosts>>

\* INSERT INTO devices ... of a device_id another request inserted since the
\* SELECT: sqlite3.IntegrityError leaves the handler, the response is a 500
\* and the connection is dropped with its transaction rolled back.
register_device_integrity_error(p) ==
  /\ pc[p] = "reg_insert"
  /\ lock \in {0, p}
  /\ UniqueViolation(Pages(p), req[p].device_id)
  /\ Respond(p, 500, <<>>, 0)
  /\ UNCHANGED <<db, wdb, lock, clock, Ghosts>>

\* conn.commit(); return {"status": "success", ...}
register_device_commit(p) ==
  /\ pc[p] = "reg_commit"
  /\ Commit(p)
  /\ Respond(p, 200, <<>>, 0)
  /\ UNCHANGED <<clock, Ghosts>>

\* ------------------------------------------------ send_command (enqueue)
\* INSERT INTO commands (device_id, command_type, command_data)
send_command_insert(p, bodies) ==
  /\ \E d \in DeviceIds, b \in bodies :
       /\ Arrive(p, Request("send_command", d, 0, NoMeta, b), "send_commit")
       /\ Dml(p, InsertCommand(Pages(p), d, b.command_type,
                               json_dumps(b.command_data)))
  /\ NextId(Pages(p), "commands") <= MaxCommands
  /\ Silent
  /\ UNCHANGED <<clock, local, Ghosts>>

\* conn.commit(); return {"status": "success", ...}
send_command_commit(p) ==
  /\ pc[p] = "send_commit"
  /\ Commit(p)
  /\ Respond(p, 200, <<>>, 0)
  /\ Issue(wdb)
  /\ UNCHANGED <<clock, returned, redelivered, hist>>

\* ------------------------------------------------- submit_form, log_sms
submit_form_insert(p) ==
  /\ \E d \in DeviceIds :
       /\ Arrive(p, Request("submit_form", d, 0, NoMeta, NoBody), "form_commit")
       /\ Dml(p, InsertForm(Pages(p), d))
  /\ NextId(Pages(p), "form_submissions") <= MaxLogs
  /\ Silent
  /\ UNCHANGED <<clock, local, Ghosts>>

submit_form_commit(p) ==
  /\ pc[p] = "form_commit"
  /\ Commit(p)
  /\ Respond(p, 200, <<>>, 0)
  /\ UNCHANGED <<clock, Ghosts>>

log_sms_insert(p) ==
  /\ \E d \in DeviceIds :
       /\ Arrive(p, Request("log_sms", d, 0, NoMeta, NoBody), "sms_commit")
       /\ Dml(p, InsertSms(Pages(p), d))
  /\ NextId(Pages(p), "sms_logs") <= MaxLogs
  /\ Silent
  /\ UNCHANGED <<clock, local, Ghosts>>

log_sms_commit(p) ==
  /\ pc[p] = "sms_commit"
  /\ Commit(p)
  /\ Respond(p, 200, <<>>, 0)
  /\ UNCHANGED <<clock, Ghosts>>

\* ------------------------------- get_pending_commands (deliver_pending)
\* The ids a call returns enter `returned`; those already there, `redelivered`.
Deliver(command_list) ==
  LET ids == {command_list[i].id : i \in 1..Len(command_list)}
  IN /\ returned' = returned \cup ids
     /\ redelivered' = redelivered \cup (ids \cap returned)
     /\ UNCHANGED <<hist, issued>>

\* SELECT ... WHERE device_id = ? AND status = 'pending'; the loop building
\* command_list and command_ids; `if command_ids:` taken
get_pending_commands_select(p) ==
  /\ \E d \in DeviceIds :
       /\ SelectPending(db, d) # <<>>
       /\ Arrive(p, Request("get_pending_commands", d, 0, NoMeta, NoBody),
                 "pending_update")
       /\ local' = [local EXCEPT
            ![p].command_list = CommandList(SelectPending(db, d)),
            ![p].command_ids = CommandIds(SelectPending(db, d))]
  /\ Silent
  /\ UNCHANGED <<db, wdb, lock, clock, Ghosts>>

\* The same with no pending row: `if command_ids:` not taken, no write,
\* return []
get_pending_commands_none(p) ==
  /\ pc[p] = "idle"
  /\ \E d \in DeviceIds :
       /\ SelectPending(db, d) = <<>>
       /\ resp' = Response("get_pending_commands", d, 0, 200, <<>>, 0)
  /\ UNCHANGED <<db, wdb, lock, clock, pc, req, local, Ghosts>>

\* UPDATE commands SET status = 'sent' WHERE id IN (...)
get_pending_commands_update(p) ==
  /\ pc[p] = "pending_update"
  /\ Dml(p, UpdateSent(Pages(p), local[p].command_ids))
  /\ Goto(p, "pending_commit")
  /\ Silent
  /\ UNCHANGED <<clock, req, local, Ghosts>>

\* conn.commit(); return command_list
get_pending_commands_commit(p) ==
  /\ pc[p] = "pending_commit"
  /\ Commit(p)
  /\ Respond(p, 200, local[p].command_list, 0)
  /\ Deliver(local[p].command_list)
  /\ UNCHANGED clock

\* --------------------------- mark_command_executed (confirm_executed)
CommandIdInputs == 1..(MaxCommands + 1)

\* UPDATE commands SET status = 'executed' WHERE id = ?
mark_command_executed_update(p) ==
  /\ \E c \in CommandIdInputs :
       /\ Arrive(p, Request("mark_command_executed", "", c, NoMeta, NoBody),
                 "executed_commit")
       /\ Dml(p, UpdateExecuted(Pages(p), c))
       /\ local' = [local EXCEPT ![p].rowcount = RowCount(Pages(p), c)]
  /\ Silent
  /\ UNCHANGED <<clock, Ghosts>>

\* conn.commit(); return {"status": "success", ...} whatever the UPDATE matched
mark_command_executed_commit(p) ==
  /\ pc[p] = "executed_commit"
  /\ Commit(p)
  /\ Respond(p, 200, <<>>, local[p].rowcount)
  /\ UNCHANGED <<clock, Ghosts>>

\* ------------------------------------------------------- delete_device
\* SELECT COUNT(*) FROM devices WHERE device_id = ?: a row is there
delete_device_check(p) ==
  /\ \E d \in DeviceIds :
       /\ CountDevices(db, d) # 0
       /\ Arrive(p, Request("delete_device", d, 0, NoMeta, NoBody), "del_devices")
  /\ Silent
  /\ UNCHANGED <<db, wdb, lock, clock, local, Ghosts>>

\* ... no row is there: raise HTTPException(status_code=404)
delete_device_not_found(p) ==
  /\ pc[p] = "idle"
  /\ \E d \in DeviceIds :
       /\ CountDevices(db, d) = 0
       /\ resp' = Response("delete_device", d, 0, 404, <<>>, 0)
  /\ UNCHANGED <<db, wdb, lock, clock, pc, req, local, Ghosts>>

\* DELETE FROM devices WHERE device_id = ?
delete_device_devices(p) ==
  /\ pc[p] = "del_devices"
  /\ Dml(p, DeleteDevices(Pages(p), req[p].device_id))
  /\ Goto(p, "del_sms")
  /\ local' = [local EXCEPT ![p].rowcount =
       @ + RowTotal(Pages(p)) - RowTotal(DeleteDevices(Pages(p), req[p].device_id))]
  /\ Silent
  /\ UNCHANGED <<clock, req, Ghosts>>

\* DELETE FROM sms_logs WHERE device_id = ?
delete_device_sms(p) ==
  /\ pc[p] = "del_sms"
  /\ Dml(p, DeleteSms(Pages(p), req[p].device_id))
  /\ Goto(p, "del_forms")
  /\ local' = [local EXCEPT ![p].rowcount =
       @ + RowTotal(Pages(p)) - RowTotal(DeleteSms(Pages(p), req[p].device_id))]
  /\ Silent
  /\ UNCHANGED <<clock, req, Ghosts>>

\* DELETE FROM form_submissions WHERE device_id = ?
delete_device_forms(p) ==
  /\ pc[p] = "del_forms"
  /\ Dml(p, DeleteForms(Pages(p), req[p].device_id))
  /\ Goto(p, "del_commands")
  /\ local' = [local EXCEPT ![p].rowcount =
       @ + RowTotal(Pages(p)) - RowTotal(DeleteForms(Pages(p), req[p].device_id))]
  /\ Silent
  /\ UNCHANGED <<clock, req, Ghosts>>

\* DELETE FROM commands WHERE device_id = ?
delete_device_commands(p) ==
  /\ pc[p] = "del_commands"
  /\ Dml(p, DeleteCommands(Pages(p), req[p].device_id))
  /\ Goto(p, "del_commit")
  /\ local' = [local EXCEPT ![p].rowcount =
       @ + RowTotal(Pages(p)) - RowTotal(DeleteCommands(Pages(p), req[p].device_id))]
  /\ Silent
  /\ UNCHANGED <<clock, req, Ghosts>>

\* conn.commit(); return {"status": "success", ...}
delete_device_commit(p) ==
  /\ pc[p] = "del_commit"
  /\ Commit(p)
  /\ Respond(p, 200, <<>>, local[p].rowcount)
  /\ UNCHANGED <<clock, Ghosts>>

\* ---------------------------------------------- get_devices (list_devices)
\* get_devices over the fetched rows: current_time is read once, after the
\* SELECT; a ValueError of strptime puts last_seen_dt threshold + 1 seconds
\* back, any other exception leaves the handler (500).
get_devices(rows, clockMs) ==
  LET current_time == clockMs
      last_seen_dt(device) ==
        IF strptime(device.last_seen).raised = "ValueError"
        THEN current_time - (ONLINE_THRESHOLD_SECONDS + 1) * MsPerSecond
        ELSE strptime(device.last_seen).seconds * MsPerSecond
      DeviceResponse(device) ==
        [device_id |-> device.device_id, device_name |-> device.device_name,
         os_version |-> device.os_version, phone_number |-> device.phone_number,
         battery_level |-> device.battery_level,
         is_online |-> (current_time - last_seen_dt(device)
                          < ONLINE_THRESHOLD_SECONDS * MsPerSecond),
         created_at |-> device.created_at]
  IN IF \E i \in DOMAIN rows : strptime(rows[i].last_seen).raised = "TypeError"
     THEN [status |-> 500, body |-> <<>>]
     ELSE [status |-> 200, body |-> [i \in DOMAIN rows |-> DeviceResponse(rows[i])]]

\* The one SELECT and the loop over its rows; nothing is written.
get_devices_request(p) ==
  /\ pc[p] = "idle"
  /\ \E rows \in OrderByCreatedAt(db) :
       LET out == get_devices(rows, clock)
       IN resp' = Response("get_devices", "", 0, out.status, out.body, 0)
  /\ UNCHANGED <<db, wdb, lock, clock, pc, req, local, Ghosts>>

\* ------------------------------------------------------------ the clock
Tick ==
  /\ clock + ClockStepMs <= MaxClockMs
  /\ clock' = clock + ClockStepMs
  /\ Silent
  /\ UNCHANGED <<db, wdb, lock, pc, req, local, Ghosts>>

\* ------------------------------------------------------- specifications
Register(p) ==
  \/ register_device_now(p)
  \/ register_device_select(p)
  \/ register_device_update(p)
  \/ register_device_insert(p)
  \/ register_device_integrity_error(p)
  \/ register_device_commit(p)

Enqueue(p, bodies) == send_command_insert(p, bodies) \/ send_command_commit(p)

Logs(p) ==
  \/ submit_form_insert(p)
  \/ submit_form_commit(p)
  \/ log_sms_insert(p)
  \/ log_sms_commit(p)

DeliverPending(p) ==
  \/ get_pending_commands_select(p)
  \/ get_pending_commands_none(p)
  \/ get_pending_commands_update(p)
  \/ get_pending_commands_commit(p)

Confirm(p) == mark_command_executed_update(p) \/ mark_command_executed_commit(p)

Delete(p) ==
  \/ delete_device_check(p)
  \/ delete_device_not_found(p)
  \/ delete_device_devices(p)
  \/ delete_device_sms(p)
  \/ delete_device_forms(p)
  \/ delete_device_commands(p)
  \/ delete_device_commit(p)

\* Every request of the model, interleaved statement by statement.
Next ==
  \/ \E p \in Procs : Register(p)
  \/ \E p \in Procs : Enqueue(p, Bodies)
  \/ \E p \in Procs : Logs(p)
  \/ \E p \in Procs : DeliverPending(p)
  \/ \E p \in Procs : Confirm(p)
  \/ \E p \in Procs : Delete(p)
  \/ Tick

Spec == Init /\ [][Next]_vars

\* The command dispatcher alone: enqueue, deliver_pending, confirm_executed.
NextDispatch ==
  \/ \E p \in Procs : Enqueue(p, Bodies)
  \/ \E p \in Procs : DeliverPending(p)
  \/ \E p \in Procs : Confirm(p)

SpecDispatch == Init /\ [][NextDispatch]_vars

\* The dispatcher for commands of one body.
NextDeliver ==
  \/ \E p \in Procs : Enqueue(p, {SmsBody})
  \/ \E p \in Procs : DeliverPending(p)
  \/ \E p \in Procs : Confirm(p)

SpecDeliver == Init /\ [][NextDeliver]_vars

\* A get_pending_commands request for device_id is taken up.
PollStarts(device_id) ==
  \E p \in Procs :
    \/ get_pending_commands_select(p) /\ req'[p].device_id = device_id
    \/ get_pending_commands_none(p) /\ resp'.device_id = device_id

\* Every device keeps polling, and every request that has started runs to its
\* response: a worker waiting for the write lock gets it, a transaction is
\* committed.
FairPolling ==
  /\ \A d \in DeviceIds : SF_vars(PollStarts(d))
  /\ \A p \in Procs :
       /\ SF_vars(get_pending_commands_update(p))
       /\ WF_vars(get_pending_commands_commit(p))
       /\ WF_vars(send_command_commit(p))
       /\ WF_vars(mark_command_executed_commit(p))

SpecPolling == SpecDeliver /\ FairPolling

\* The same requests with one in flight at a time: a request is taken up and
\* continued only while every other worker is idle.
Alone(p) == \A q \in Procs \ {p} : pc[q] = "idle"

NextSerial ==
  \E p \in Procs :
    /\ Alone(p)
    /\ (Enqueue(p, {SmsBody}) \/ DeliverPending(p) \/ Confirm(p))

SpecSerial == Init /\ [][NextSerial]_vars /\ FairPolling

\* Check-ins against the clock.
NextCheckIn ==
  \/ \E p \in Procs : Register(p)
  \/ Tick

SpecCheckIn == Init /\ [][NextCheckIn]_vars

\* Check-ins and deletes of devices.
NextRegistry ==
  \/ \E p \in Procs : Register(p)
  \/ \E p \in Procs : Delete(p)

SpecRegistry == Init /\ [][NextRegistry]_vars

\* Deletes among the requests that create the dependents of a device (the
\* demo device is registered from the start); the commands all carry one body.
NextDelete ==
  \/ \E p \in Procs : Enqueue(p, {SmsBody})
  \/ \E p \in Procs : Logs(p)
  \/ \E p \in Procs : Delete(p)

SpecDelete == Init /\ [][NextDelete]_vars

\* ------------------------------------ whole requests, one after the other
\* A handler run from its first statement to its response with no other
\* request in between: the database it leaves and what it answers.
Outcome(s, status, body, rowcount) ==
  [db |-> s, status |-> status, body |-> body, rowcount |-> rowcount]

\* (mutant) an upsert: the UPDATE branch also writes the request's metadata.
register_device_overwrite(s, clockMs, device_id, meta) ==
  IF SelectDevice(s, device_id)
  THEN Outcome([s EXCEPT !.devices =
                  {IF r.device_id = device_id
                     THEN [r EXCEPT !.last_seen = now_utc(clockMs),
                                    !.device_name = meta.device_name,
                                    !.os_version = meta.os_version,
                                    !.phone_number = meta.phone_number,
                                    !.battery_level = meta.battery_level]
                     ELSE r : r \in @}], 200, <<>>, 0)
  ELSE Outcome(InsertDevice(s, device_id, meta, now_utc(clockMs)), 200, <<>>, 0)

register_device(s, clockMs, device_id, meta) ==
  IF SelectDevice(s, device_id)
  THEN Outcome(UpdateLastSeen(s, device_id, now_utc(clockMs)), 200, <<>>, 0)
  ELSE IF UniqueViolation(s, device_id)
       THEN Outcome(s, 500, <<>>, 0)
       ELSE Outcome(InsertDevice(s, device_id, meta, now_utc(clockMs)), 200, <<>>, 0)

send_command(s, device_id, body) ==
  Outcome(InsertCommand(s, device_id, body.command_type,
                        json_dumps(body.command_data)), 200, <<>>, 0)

get_pending_commands(s, device_id) ==
  LET rows == SelectPending(s, device_id)
  IN Outcome(IF CommandIds(rows) # <<>> THEN UpdateSent(s, CommandIds(rows)) ELSE s,
             200, CommandList(rows), 0)

mark_command_executed(s, command_id) ==
  Outcome(UpdateExecuted(s, command_id), 200, <<>>, RowCount(s, command_id))

delete_device(s, device_id) ==
  IF CountDevices(s, device_id) = 0
  THEN Outcome(s, 404, <<>>, 0)
  ELSE LET out == DeleteCommands(DeleteForms(DeleteSms(
                   DeleteDevices(s, device_id), device_id), device_id), device_id)
       IN Outcome(out, 200, <<>>, RowTotal(s) - RowTotal(out))

\* The request becomes the newest entry of hist, which keeps two entries.
Serve(op, device_id, command_id, out) ==
  /\ lock = 0
  /\ \A p \in Procs : pc[p] = "idle"
  /\ db' = out.db
  /\ wdb' = out.db
  /\ hist' = (IF Len(hist) < 2 THEN hist ELSE Tail(hist))
             \o <<[op |-> op, device_id |-> device_id, command_id |-> command_id,
                   status |-> out.status, body |-> out.body,
                   rowcount |-> out.rowcount, before |-> db, at |-> clock]>>
  /\ resp' = Response(op, device_id, command_id, out.status, out.body, out.rowcount)
  /\ Issue(out.db)
  /\ UNCHANGED <<lock, clock, pc, req, local>>

seq_register_device ==
  /\ \E d \in DeviceIds, m \in Metas :
       /\ register_device(db, clock, d, m).db.seq.devices <= MaxDeviceRows
       /\ Serve("register_device", d, 0, register_device(db, clock, d, m))
  /\ UNCHANGED <<returned, redelivered>>

seq_send_command ==
  /\ NextId(db, "commands") <= MaxCommands
  /\ \E d \in DeviceIds, b \in Bodies :
       Serve("send_command", d, 0, send_command(db, d, b))
  /\ UNCHANGED <<returned, redelivered>>

\* The same for chosen devices and bodies, up to cap commands.
seq_send_command_for(devices, bodies, cap) ==
  /\ NextId(db, "commands") <= cap
  /\ \E d \in devices, b \in bodies :
       Serve("send_command", d, 0, send_command(db, d, b))
  /\ UNCHANGED <<returned, redelivered>>

seq_get_pending_commands ==
  \E d \in DeviceIds :
    LET out == get_pending_commands(db, d)
        ids == {out.body[i].id : i \in 1..Len(out.body)}
    IN /\ Serve("get_pending_commands", d, 0, out)
       /\ returned' = returned \cup ids
       /\ redelivered' = redelivered \cup (ids \cap returned)

seq_mark_command_executed ==
  /\ \E c \in CommandIdInputs :
       Serve("mark_command_executed", "", c, mark_command_executed(db, c))
  /\ UNCHANGED <<returned, redelivered>>

seq_delete_device ==
  /\ \E d \in DeviceIds : Serve("delete_device", d, 0, delete_device(db, d))
  /\ UNCHANGED <<returned, redelivered>>

seq_get_devices ==
  /\ \E rows \in OrderByCreatedAt(db) :
       LET out == get_devices(rows, clock)
       IN Serve("get_devices", "", 0, Outcome(db, out.status, out.body, 0))
  /\ UNCHANGED <<returned, redelivered>>

\* One worker serving the dispatcher and the deletes.
NextSeq ==
  \/ seq_send_command
  \/ seq_get_pending_commands
  \/ seq_mark_command_executed
  \/ seq_delete_device

SpecSeq == Init /\ [][NextSeq]_vars

\* One worker serving the dispatcher for commands of one body, one command
\* more than elsewhere.
NextScenario ==
  \/ seq_send_command_for(DeviceIds, {SmsBody}, MaxCommands + 1)
  \/ seq_get_pending_commands
  \/ seq_mark_command_executed

SpecScenario == Init /\ [][NextScenario]_vars

\* One worker serving the registry against the clock.
NextSeqRegistry ==
  \/ seq_register_device
  \/ seq_delete_device
  \/ Tick

SpecSeqRegistry == Init /\ [][NextSeqRegistry]_vars

\* ---------------------------------------------- presence against the clock
\* The instants around the online threshold, to the millisecond.
Instants ==
  {sec * MsPerSecond + ms :
     sec \in {0, ONLINE_THRESHOLD_SECONDS - 1, ONLINE_THRESHOLD_SECONDS,
              ONLINE_THRESHOLD_SECONDS + 1},
     ms \in {0, 1, MsPerSecond - 1}}

\* Time passes, up to a later one of these instants.
Elapse ==
  /\ \E t \in Instants : t > clock /\ clock' = t
  /\ Silent
  /\ UNCHANGED <<db, wdb, lock, pc, req, local, Ghosts>>

\* rms.db outlives the process (CREATE TABLE IF NOT EXISTS, and the demo row is
\* inserted only into an empty devices table): the server may start on a file
\* whose device row carries any value the last_seen column can hold.
StoredFiles ==
  {[init_db(0) EXCEPT !.devices = {[r EXCEPT !.last_seen = value] : r \in @}] :
     value \in {0, MalformedText, NumericValue}}

InitStored ==
  /\ clock = 0
  /\ db \in StoredFiles
  /\ wdb = db
  /\ lock = 0
  /\ pc = [p \in Procs |-> "idle"]
  /\ req = [p \in Procs |-> NoReq]
  /\ local = [p \in Procs |-> NoLocal]
  /\ resp = NoRet
  /\ returned = {}
  /\ redelivered = {}
  /\ hist = <<>>
  /\ issued = {}

\* One worker serving check-ins and listings while time passes.
NextPresence ==
  \/ seq_register_device
  \/ seq_get_devices
  \/ Elapse

SpecPresence == Init /\ [][NextPresence]_vars

\* The same on a file found at start-up.
SpecStored == InitStored /\ [][NextPresence]_vars

\* Check-ins and deletes of several workers, listings and the clock.
NextListing ==
  \/ \E p \in Procs : Register(p)
  \/ \E p \in Procs : Delete(p)
  \/ \E p \in Procs : get_devices_request(p)
  \/ Tick

SpecListing == Init /\ [][NextListing]_vars

\* =================================================================
\* Properties
\* =================================================================
DeviceRows(s, device_id) == {r \in s.devices : r.device_id = device_id}

\* The commands and log records that reference a device, by table and rowid.
Dependents(s, device_id) ==
  {<<"commands", r.id>> : r \in {c \in s.commands : c.device_id = device_id}}
    \cup {<<"sms_logs", r.id>> : r \in {c \in s.sms_logs : c.device_id = device_id}}
    \cup {<<"form_submissions", r.id>> :
            r \in {c \in s.form_submissions : c.device_id = device_id}}

NoRecordsOf(s, device_id) ==
  DeviceRows(s, device_id) = {} /\ Dependents(s, device_id) = {}

Rank(status) ==
  CASE status = "pending" -> 0 [] status = "sent" -> 1 [] status = "executed" -> 2

\* C1 (SpecDispatch): at-most-once delivery.  No command id is returned by
\* more than one get_pending_commands call, overlapping calls included.
C1_AtMostOnceDelivery == redelivered = {}

\* C2 (SpecDispatch): command status is monotonic.  No step moves a command's
\* committed status backward along pending -> sent -> executed.
C2_StatusMonotonic ==
  [][\A r \in db.commands : \A q \in db'.commands :
       q.id = r.id => Rank(q.status) >= Rank(r.status)]_vars

\* C3 (SpecDispatch): mark_command_executed answers NotFound (404) when its
\* UPDATE matched no command, and success (200) only when a command with that
\* id exists.
C3_ConfirmReportsNotFound ==
  resp.op = "mark_command_executed"
    => resp.status = (IF resp.rowcount = 0 THEN 404 ELSE 200)

\* C4 (SpecSeq): two get_pending_commands calls for one device, one right
\* after the other.  The first returns exactly the commands that were pending
\* (each once, with its type), the second returns the empty list, and
\* afterwards all of them are in state sent.
C4_DeliverTwice ==
  (/\ Len(hist) = 2
   /\ hist[1].op = "get_pending_commands"
   /\ hist[2].op = "get_pending_commands"
   /\ hist[1].device_id = hist[2].device_id)
  => LET pend == {r \in hist[1].before.commands :
                    r.device_id = hist[1].device_id /\ r.status = "pending"}
         first == hist[1].body
     IN /\ Len(first) = Cardinality(pend)
        /\ \A r \in pend : \E i \in 1..Len(first) :
             first[i].id = r.id /\ first[i].command_type = r.command_type
        /\ hist[2].body = <<>>
        /\ \A r \in pend : \E c \in db.commands : c.id = r.id /\ c.status = "sent"

\* C4 witness: the two calls happened and the first returned two commands.
C4_Witness ==
  /\ Len(hist) = 2
  /\ hist[1].op = "get_pending_commands"
  /\ hist[2].op = "get_pending_commands"
  /\ hist[1].device_id = hist[2].device_id
  /\ Len(hist[1].body) = 2

\* C5 (SpecDelete): right after a delete_device call on an existing device
\* commits, the committed database holds no device, command, sms_log or
\* form_submission row with that device_id.
C5_DeleteLeavesNothing ==
  [][\A p \in Procs :
       (pc[p] = "del_commit" /\ pc'[p] = "idle")
         => NoRecordsOf(db', req[p].device_id)]_vars

\* C5 witness: a delete answered success after removing a device row and a
\* row of each dependent table.
C5_Witness ==
  /\ resp.op = "delete_device"
  /\ resp.status = 200
  /\ resp.rowcount >= 4
  /\ NoRecordsOf(db, resp.device_id)

\* A delete_device request for device_id arrives in this step: a worker
\* takes it up, or it is answered at once.
DeleteArrives(device_id) ==
  \/ \E p \in Procs :
       /\ pc[p] = "idle"
       /\ req'[p].op = "delete_device"
       /\ req'[p].device_id = device_id
  \/ /\ pc' = pc
     /\ resp' # resp
     /\ resp'.op = "delete_device"
     /\ resp'.device_id = device_id

\* C6 (SpecDelete): delete_device for a device_id with no device row answers
\* NotFound (404) at once and changes nothing: not the committed database, no
\* transaction is opened, commands and logs of that device_id stay.
C6_DeleteUnknownChangesNothing ==
  [][\A d \in DeviceIds :
       (DeleteArrives(d) /\ DeviceRows(db, d) = {})
         => /\ resp' = Response("delete_device", d, 0, 404, <<>>, 0)
            /\ pc' = pc
            /\ db' = db /\ wdb' = wdb /\ lock' = lock]_vars

\* C6 witness: a delete has just been answered 404 for a device_id that
\* commands and log records reference.
C6_Witness ==
  /\ resp.op = "delete_device"
  /\ resp.status = 404
  /\ \E c \in db.commands : c.device_id = resp.device_id
  /\ \E c \in db.sms_logs : c.device_id = resp.device_id
  /\ \E c \in db.form_submissions : c.device_id = resp.device_id

\* C7 (SpecDelete): the cascade is atomic for every other request.  In the
\* committed database a device row and its dependents disappear in one step:
\* no step removes the device and leaves a dependent that was there, and no
\* step removes a dependent and leaves the device or another dependent.
C7_DeleteAtomic ==
  [][\A d \in DeviceIds :
       LET kept == Dependents(db, d) \cap Dependents(db', d)
           deviceGone == DeviceRows(db, d) # {} /\ DeviceRows(db', d) = {}
           dependentGone == Dependents(db, d) \ Dependents(db', d) # {}
       IN /\ deviceGone => kept = {}
          /\ dependentGone => (DeviceRows(db', d) = {} /\ kept = {})]_vars

\* C7 witness: a delete is in the middle of its cascade (the device row is gone
\* from its transaction) while the committed database still shows the device
\* and its dependents.
C7_Witness ==
  \E p \in Procs :
    /\ pc[p] = "del_forms"
    /\ lock = p
    /\ DeviceRows(wdb, req[p].device_id) = {}
    /\ DeviceRows(db, req[p].device_id) # {}
    /\ Dependents(db, req[p].device_id) # {}

\* C8 (SpecCheckIn): every register_device request answers success.
C8_CheckInAlwaysSucceeds ==
  resp.op = "register_device" => resp.status = 200

\* C9 (SpecCheckIn): at most one device row per device_id, in the committed
\* database and in every open transaction.
C9_OneDevicePerId ==
  \A s \in {db, wdb} : \A r \in s.devices : \A q \in s.devices :
    r.device_id = q.device_id => r.id = q.id

\* C9 witness: two check-ins for the same unknown device_id ran concurrently,
\* both found no row; one inserted it, the other's INSERT has just been
\* refused, and the table holds the one row.
C9_Witness ==
  /\ resp.op = "register_device"
  /\ resp.status = 500
  /\ Cardinality(DeviceRows(db, resp.device_id)) = 1

\* C10 (SpecCheckIn): last_seen of a device row never decreases while the row
\* exists.
C10_LastSeenMonotonic ==
  [][\A r \in db.devices : \A q \in db'.devices :
       q.id = r.id => q.last_seen >= r.last_seen]_vars

\* The database a request of hist left behind: what the next one started from.
After(i) == IF i = Len(hist) THEN db ELSE hist[i + 1].before

\* C11 (SpecSeqRegistry): a register_device for a device_id that has a row
\* answers success and changes nothing but that row's last_seen: every other
\* column of the row, created_at included, every other row and every other
\* table stay as they were, and no row is added.
C11_CheckInChangesOnlyLastSeen ==
  \A i \in 1..Len(hist) :
    (hist[i].op = "register_device"
       /\ DeviceRows(hist[i].before, hist[i].device_id) # {})
    => /\ hist[i].status = 200
       /\ \E t \in {r.last_seen : r \in After(i).devices} :
            After(i) = UpdateLastSeen(hist[i].before, hist[i].device_id, t)

\* C11 witness: the demo device, registered with its own metadata, has just
\* checked in again in a later second; the row is the only one of its
\* device_id, its last_seen moved and its created_at did not.
C11_Witness ==
  /\ resp.op = "register_device"
  /\ resp.device_id = DemoDeviceId
  /\ Len(hist) >= 1
  /\ \E r \in DeviceRows(hist[Len(hist)].before, DemoDeviceId) :
       /\ DeviceRows(db, DemoDeviceId) = {[r EXCEPT !.last_seen = now_utc(clock)]}
       /\ r.last_seen < now_utc(clock)
       /\ r.device_name = DemoMeta.device_name
       /\ r.created_at < now_utc(clock)

\* C12 (SpecPresence): a listing right after a device's check-in reports the
\* device online if and only if less than ONLINE_THRESHOLD_SECONDS passed
\* between the instant of the check-in and the instant of the listing, to the
\* millisecond.
C12_OnlineIffWithinThreshold ==
  (/\ Len(hist) = 2
   /\ hist[1].op = "register_device"
   /\ hist[1].status = 200
   /\ hist[2].op = "get_devices"
   /\ hist[2].status = 200)
  => \A i \in DOMAIN hist[2].body :
       hist[2].body[i].device_id = hist[1].device_id
         => hist[2].body[i].is_online
              = (hist[2].at - hist[1].at < ONLINE_THRESHOLD_SECONDS * MsPerSecond)

\* C13 (SpecStored): whatever the last_seen column of a device holds, a listing
\* completes (200) with one entry per device row, and a device whose last_seen
\* is no timestamp in the format is listed with is_online = false.
C13_MalformedLastSeenOffline ==
  resp.op = "get_devices"
    => /\ resp.status = 200
       /\ {resp.body[i].device_id : i \in DOMAIN resp.body}
            = {r.device_id : r \in db.devices}
       /\ \A r \in db.devices : \A i \in DOMAIN resp.body :
            (resp.body[i].device_id = r.device_id
               /\ r.last_seen \in {MalformedText, NumericValue})
              => ~resp.body[i].is_online

\* The row of the devices table a listing entry was built from.
ListedRow(entry) == CHOOSE r \in db.devices : r.device_id = entry.device_id

\* C14 (SpecListing): a listing holds one entry per device row, by ascending
\* created_at and in the order the rows were created: a device whose row was
\* inserted earlier (the smaller rowid; the INSERTs are serialised by the
\* write lock) comes first, equal created_at values included.
C14_ListingInsertionOrder ==
  resp.op = "get_devices"
    => /\ resp.status = 200
       /\ Len(resp.body) = Cardinality(db.devices)
       /\ \A i \in DOMAIN resp.body : \A j \in DOMAIN resp.body :
            i < j => /\ resp.body[i].created_at <= resp.body[j].created_at
                     /\ ListedRow(resp.body[i]).id < ListedRow(resp.body[j]).id

\* C15 (SpecSeq): mark_command_executed for a command in state sent answers
\* success and leaves it executed; run a second time for the same id right
\* after, it answers success again and leaves the database exactly as the
\* first run left it.
C15_ConfirmIdempotent ==
  /\ \A i \in 1..Len(hist) :
       hist[i].op = "mark_command_executed"
         => \A c \in hist[i].before.commands :
              (c.id = hist[i].command_id /\ c.status = "sent")
                => /\ hist[i].status = 200
                   /\ [c EXCEPT !.status = "executed"] \in After(i).commands
  /\ (/\ Len(hist) = 2
      /\ hist[1].op = "mark_command_executed"
      /\ hist[2].op = "mark_command_executed"
      /\ hist[1].command_id = hist[2].command_id)
     => /\ hist[2].status = 200
        /\ db = hist[2].before

\* C15 witness: a command that was sent has been confirmed twice in a row and
\* is executed.
C15_Witness ==
  /\ Len(hist) = 2
  /\ hist[1].op = "mark_command_executed"
  /\ hist[2].op = "mark_command_executed"
  /\ hist[1].command_id = hist[2].command_id
  /\ \E c \in hist[1].before.commands :
       /\ c.id = hist[1].command_id
       /\ c.status = "sent"
       /\ [c EXCEPT !.status = "executed"] \in db.commands

\* C16 (SpecScenario): mark_command_executed(c) changes nothing but the status
\* of command c: every other command, of any device, is left as it was, c keeps
\* its device_id, command_type and command_data, no row appears or
\* disappears, and the other tables are untouched.
C16_ConfirmChangesOnlyItsCommand ==
  \A i \in 1..Len(hist) :
    hist[i].op = "mark_command_executed"
      => /\ After(i).commands =
              {IF r.id = hist[i].command_id
                 THEN [r EXCEPT !.status = "executed"] ELSE r
                 : r \in hist[i].before.commands}
         /\ [After(i) EXCEPT !.commands = hist[i].before.commands] = hist[i].before

\* C16 witness: three commands of one device were all sent; the first has just
\* been confirmed and is executed, the other two are still sent.
C16_Witness ==
  /\ resp.op = "mark_command_executed"
  /\ Len(hist) >= 1
  /\ \E d \in DeviceIds :
       LET mine == {r \in db.commands : r.device_id = d}
       IN /\ Cardinality(mine) = 3
          /\ \A r \in {q \in hist[Len(hist)].before.commands : q.device_id = d} :
               r.status = "sent"
          /\ \A r \in mine :
               r.status = (IF \A q \in mine : r.id <= q.id THEN "executed" ELSE "sent")
          /\ \E r \in mine : r.id = resp.command_id /\ r.status = "executed"

\* C17 (SpecSeq): every send_command answers success, whether or not a device
\* row exists for its device_id, and adds exactly one command: pending, for
\* that device_id, with an id greater than every id a command was ever given,
\* those of commands a delete has removed included.
C17_EnqueueFreshId ==
  [][resp'.op = "send_command"
       => /\ resp'.status = 200
          /\ db.commands \subseteq db'.commands
          /\ \E c \in db'.commands :
               /\ db'.commands \ db.commands = {c}
               /\ c.status = "pending"
               /\ c.device_id = resp'.device_id
               /\ \A i \in issued : c.id > i]_vars

\* C17 witness: a command has just been enqueued for a device_id without a
\* device row, after a delete removed an earlier command.
C17_Witness ==
  /\ resp.op = "send_command"
  /\ DeviceRows(db, resp.device_id) = {}
  /\ \E i \in issued : \A c \in db.commands : c.id # i
  /\ \E c \in db.commands :
       /\ c.device_id = resp.device_id
       /\ c.status = "pending"
       /\ \A i \in issued : c.id >= i

\* The ids of the items of a get_pending_commands response.
ListedIds(command_list) == {command_list[i].id : i \in DOMAIN command_list}

\* C18 (SpecDeliver): mark_command_executed takes a command to executed in one
\* committed step whatever its status was, pending included; a command that is
\* not pending is never pending again; and a get_pending_commands call that
\* starts (runs its SELECT) when a command is executed does not capture it,
\* the call's response being the list it captured.
C18_ConfirmPendingSkipsSent ==
  [][/\ resp'.op = "mark_command_executed"
        => \A c \in db.commands :
             c.id = resp'.command_id
               => [c EXCEPT !.status = "executed"] \in db'.commands
     /\ \A c \in db.commands : \A q \in db'.commands :
          (q.id = c.id /\ c.status # "pending") => q.status # "pending"
     /\ \A p \in Procs :
          /\ (pc[p] = "idle" /\ pc'[p] = "pending_update")
               => \A c \in db.commands :
                    c.status = "executed" => c.id \notin ListedIds(local'[p].command_list)
          /\ (pc[p] = "pending_commit" /\ pc'[p] = "idle")
               => resp'.body = local[p].command_list]_vars

\* C18 witness: a get_pending_commands call for a device has just answered
\* while a command of that device is executed that no call ever returned or
\* holds captured: it went from pending to executed.
C18_Witness ==
  /\ resp.op = "get_pending_commands"
  /\ resp.body # <<>>
  /\ \E c \in db.commands :
       /\ c.device_id = resp.device_id
       /\ c.status = "executed"
       /\ c.id \notin returned
       /\ \A p \in Procs : c.id \notin ListedIds(local[p].command_list)

\* C19 (SpecDeliver): a get_pending_commands call marks sent exactly the
\* commands it returns.  A command whose committed status becomes sent is in
\* the response sent in that step; when a call answers, every command it
\* returns is sent and every other command, one enqueued since the call's
\* SELECT included, keeps its status; and every command that is sent has been
\* returned by some call.
C19_SentExactlyReturned ==
  [][/\ \A c \in db.commands : \A q \in db'.commands :
          (q.id = c.id /\ c.status # "sent" /\ q.status = "sent")
            => /\ resp'.op = "get_pending_commands"
               /\ q.id \in ListedIds(resp'.body)
     /\ \A p \in Procs :
          (pc[p] = "pending_commit" /\ pc'[p] = "idle")
            => /\ resp'.body = local[p].command_list
               /\ \A q \in db'.commands :
                    q.id \in ListedIds(resp'.body) => q.status = "sent"
               /\ \A c \in db.commands :
                    c.id \notin ListedIds(resp'.body) => c \in db'.commands
     /\ \A q \in db'.commands : q.status = "sent" => q.id \in returned']_vars

\* C19 witness: a call has just returned and marked sent the commands it had
\* selected, and a command of the same device, committed between the call's
\* SELECT and its UPDATE, is not in the response and is pending.
C19_Witness ==
  /\ resp.op = "get_pending_commands"
  /\ resp.body # <<>>
  /\ \A q \in db.commands : q.id \in ListedIds(resp.body) => q.status = "sent"
  /\ \E c \in db.commands :
       /\ c.device_id = resp.device_id
       /\ c.status = "pending"
       /\ c.id \notin ListedIds(resp.body)

\* The command with this id is in the committed database with this status.
HasStatus(id, status) == \E c \in db.commands : c.id = id /\ c.status = status

C21_DeliverTouchesOnlyItsDevice ==
  [][\A p \in Procs :
       /\ (pc[p] = "pending_commit" /\ pc'[p] = "idle")
            => /\ resp'.op = "get_pending_commands"
               /\ resp'.device_id = req[p].device_id
               /\ \A i \in DOMAIN resp'.body :
                    \E c \in db.commands :
                      /\ c.id = resp'.body[i].id
                      /\ c.device_id = req[p].device_id
                      /\ c.command_type = resp'.body[i].command_type
                      /\ c.command_data = json_dumps(resp'.body[i].command_data)
               /\ \A c \in db.commands :
                    c.device_id # req[p].device_id => c \in db'.commands
               /\ {c.id : c \in db'.commands} = {c.id : c \in db.commands}
               /\ [db' EXCEPT !.commands = db.commands] = db
       /\ (\/ pc[p] = "idle" /\ pc'[p] = "pending_update"
           \/ pc[p] = "pending_update" /\ pc'[p] = "pending_commit")
            => db' = db
       /\ (pc' = pc /\ resp'.op = "get_pending_commands")
            => db' = db /\ resp'.body = <<>>]_vars

\* C21 witness: a call for one device has just returned its commands, which
\* are sent, while a command of another device is still pending.
C21_Witness ==
  /\ resp.op = "get_pending_commands"
  /\ resp.body # <<>>
  /\ \A c \in db.commands :
       c.id \in ListedIds(resp.body)
         => c.device_id = resp.device_id /\ c.status = "sent"
  /\ \E c \in db.commands :
       c.device_id # resp.device_id /\ c.status = "pending"

====
